---- MODULE Spec2Model ----
(***************************************************************************)
(* Model of src/app.py: the image pipeline (decode, colour normalisation,  *)
(* resize, watermark, encode) and the Streamlit script that previews the   *)
(* first image and exports the whole batch.                                *)
(*                                                                         *)
(* Strings are sequences of one-character strings, so that slicing,        *)
(* rfind, replace and lower() are computed and not assumed.  Images are    *)
(* records living in a heap (a sequence of objects); a Pillow call that    *)
(* returns a new image allocates, a call that works in place (putalpha,    *)
(* alpha_composite) rewrites the object it is called on.                   *)
(*                                                                         *)
(* Floating point: the products w*scale and width*(pct/100.0) are taken    *)
(* exactly (as rationals); round() is Python's round-half-to-even and      *)
(* int() truncates.                                                        *)
(***************************************************************************)
EXTENDS Integers, Sequences, FiniteSets, TLC

VARIABLES pc,        \* position of the script run / of the function harness
          heap,      \* the image objects the script holds: images' then wm_img
          images,    \* app.py:231  list of (name, ref into heap)
          wm_img,    \* app.py:233  ref into heap, 0 for None
          params,    \* the sidebar widgets' values (app.py:181-228)
          idx,       \* position of the batch loop (app.py:286)
          results,   \* app.py:285  list of (out_name, out_bytes)
          delivery,  \* what the export offers (app.py:283, 296, 311)
          preview,   \* what the preview offers (app.py:258-275)
          call,      \* function harness: the call being made
          ret        \* function harness: what the call returned or raised

vars == <<pc, heap, images, wm_img, params, idx, results, delivery, preview, call, ret>>

\* ------------------------------------------------------------------ bounds
MaxImages == 2
MaxDim == 5
MaxTarget == 4
MaxUploads == 2
MaxEntries == 2

\* ----------------------------------------------------------------- strings
Max(a, b) == IF a >= b THEN a ELSE b

\* The element of a one-element set.  Only({e(x) : x \in {v}}) is e with x
\* bound to the value of v: the statements of a function body run in sequence,
\* each on the state the one before left (read such a nest from the bottom up).
Only(S) == CHOOSE x \in S : TRUE

LowerChar(c) ==
  CASE c = "J" -> "j" [] c = "P" -> "p" [] c = "E" -> "e" [] c = "G" -> "g"
    [] c = "W" -> "w" [] c = "B" -> "b" [] c = "Z" -> "z" [] c = "I" -> "i"
    [] c = "N" -> "n" [] c = "T" -> "t" [] c = "F" -> "f"
    [] OTHER -> c

Lower(s) == [i \in DOMAIN s |-> LowerChar(s[i])]

Upper(s) ==
  [i \in DOMAIN s |->
     CASE s[i] = "j" -> "J" [] s[i] = "p" -> "P" [] s[i] = "e" -> "E" [] s[i] = "g" -> "G"
       [] s[i] = "w" -> "W" [] s[i] = "b" -> "B" [] s[i] = "n" -> "N"
       [] OTHER -> s[i]]

\* str.rfind: the last index of c in s, 0 when absent (Python's -1)
RFind(s, c) ==
  LET hits == {i \in DOMAIN s : s[i] = c}
  IN IF hits = {} THEN 0 ELSE CHOOSE i \in hits : \A j \in hits : j <= i

EndsWith(s, suf) ==
  /\ Len(s) >= Len(suf)
  /\ SubSeq(s, Len(s) - Len(suf) + 1, Len(s)) = suf

\* app.py:167-171
filename_with_suffix_firstdot(name, suffix, ext) ==
  LET repl == [i \in DOMAIN name |-> IF name[i] = "\\" THEN "/" ELSE name[i]]
      base == SubSeq(repl, RFind(repl, "/") + 1, Len(repl))
      dots == {i \in DOMAIN base : base[i] = "."}
      cut  == IF dots = {} THEN base
              ELSE SubSeq(base, 1, (CHOOSE i \in dots : \A j \in dots : i <= j) - 1)
  IN cut \o suffix \o <<".">> \o Lower(ext)

filename_with_suffix(name, suffix, ext) ==
  LET repl == [i \in DOMAIN name |-> IF name[i] = "\\" THEN "/" ELSE name[i]]
      base == SubSeq(repl, RFind(repl, "/") + 1, Len(repl))
      cut  == IF \E i \in DOMAIN base : base[i] = "."
              THEN SubSeq(base, 1, RFind(base, ".") - 1)
              ELSE base
  IN cut \o suffix \o <<".">> \o Lower(ext)

\* ------------------------------------------------------------------ numbers
\* Python 3 round() of the non-negative rational n/d: half to even
PyRound(n, d) ==
  LET q == n \div d
      r == n % d
  IN IF 2 * r < d THEN q
     ELSE IF 2 * r > d THEN q + 1
     ELSE IF q % 2 = 0 THEN q ELSE q + 1

\* app.py:69-71: the size resize_to_long_edge asks Image.resize for
NewSize(w, h, target_long) ==
  LET long_side == Max(w, h)
  IN <<PyRound(w * target_long, long_side), PyRound(h * target_long, long_side)>>

\* ------------------------------------------------------------------- images
\* An image object: pix names its pixel content's origin, alpha is the value of
\* its alpha channel (255 where the mode has none), mark is what was composited
\* onto it: <<>> or <<x, y, wm width, wm height, wm alpha, wm pix>>.
Modes == {"RGB", "RGBA", "L", "LA", "P", "CMYK"}
AlphaModes == {"RGBA", "LA"}

Img(pix, mode, w, h, icc, exif, alpha) ==
  [pix |-> pix, mode |-> mode, w |-> w, h |-> h, icc |-> icc, exif |-> exif,
   alpha |-> alpha, mark |-> <<>>]

\* The interpreter's state while a function runs: the heap, the reference the
\* last expression evaluated to, and the exception being raised ("none": none).
Mach(h, r) == [heap |-> h, ref |-> r, exc |-> "none"]
Raise(m, e) == [m EXCEPT !.exc = e]
Alloc(m, img) == [heap |-> Append(m.heap, img), ref |-> Len(m.heap) + 1, exc |-> m.exc]

\* Image.convert(mode): always a new image, info (icc, exif) carried over
Image_convert(m, r, mode) ==
  Alloc(m, [m.heap[r] EXCEPT
              !.mode = mode,
              !.alpha = IF mode \in AlphaModes /\ m.heap[r].mode \in AlphaModes
                        THEN @ ELSE 255])

\* Image.copy()
Image_copy(m, r) == Alloc(m, m.heap[r])

\* Image.resize(size): a new image; the core raises ValueError for a size < 1
Image_resize(m, r, w, h) ==
  IF w < 1 \/ h < 1 THEN Raise(m, "ValueError")
  ELSE Alloc(m, [m.heap[r] EXCEPT !.w = w, !.h = h])

\* Image.putalpha(alpha): in place
Image_putalpha(m, r, a) == [m EXCEPT !.heap[r].alpha = a]

\* Image.alpha_composite(im, dest): in place, clipped by the canvas
Image_alpha_composite(m, out, wm, xy) ==
  [m EXCEPT !.heap[out].mark =
     <<xy[1], xy[2], m.heap[wm].w, m.heap[wm].h, m.heap[wm].alpha, m.heap[wm].pix>>]

\* ImageCms.profileToProfile(img, src, sRGB, outputMode="RGB"): a new RGB image
\* whose info holds the sRGB profile only; an unreadable profile raises
ImageCms_profileToProfile(m, r) ==
  IF m.heap[r].icc = "bad" THEN Raise(m, "PyCMSError")
  ELSE Alloc(m, [m.heap[r] EXCEPT !.mode = "RGB", !.alpha = 255,
                                  !.icc = "srgb", !.exif = "none"])

\* app.py:46-61
ensure_rgb_and_srgb_nofallback(m, r, convert_to_srgb) ==
  IF convert_to_srgb
  THEN IF m.heap[r].icc # "none"
       THEN ImageCms_profileToProfile(m, r)
       ELSE Image_convert(m, r, "RGB")
  ELSE IF m.heap[r].mode \notin {"RGB", "RGBA"}
       THEN Image_convert(m, r, "RGB")
       ELSE [m EXCEPT !.ref = r]

ensure_rgb_and_srgb(m, r, convert_to_srgb) ==
  IF convert_to_srgb
  THEN Only({ IF tried.exc # "none" THEN Image_convert(m, r, "RGB") ELSE tried
              : tried \in {IF m.heap[r].icc # "none"
                           THEN ImageCms_profileToProfile(m, r)
                           ELSE Image_convert(m, r, "RGB")} })
  ELSE IF m.heap[r].mode \notin {"RGB", "RGBA"}
       THEN Image_convert(m, r, "RGB")
       ELSE [m EXCEPT !.ref = r]

\* app.py:64-72
resize_to_long_edge_upscaling(m, r, target_long) ==
  LET w == m.heap[r].w
      h == m.heap[r].h
      new == NewSize(w, h, target_long)
  IN IF target_long <= 0
     THEN [m EXCEPT !.ref = r]
     ELSE Image_resize(m, r, new[1], new[2])

resize_to_long_edge(m, r, target_long) ==
  LET w == m.heap[r].w
      h == m.heap[r].h
      new == NewSize(w, h, target_long)
  IN IF target_long <= 0 \/ Max(w, h) <= target_long
     THEN [m EXCEPT !.ref = r]
     ELSE Image_resize(m, r, new[1], new[2])

\* app.py:99-106
WatermarkXY_topleft(position, bw, bh, ww, wh, margin_px) ==
  CASE position = "top-left" -> <<margin_px, margin_px>>
    [] position = "top-right" -> <<bw - ww - margin_px, margin_px>>
    [] position = "bottom-left" -> <<margin_px, bh - wh - margin_px>>
    [] position = "bottom-right" -> <<bw - ww - margin_px, bh - wh - margin_px>>
    [] position = "center" -> <<(bw - ww) \div 2, (bh - wh) \div 2>>
    [] OTHER -> <<margin_px, margin_px>>

WatermarkXY(position, bw, bh, ww, wh, margin_px) ==
  CASE position = "top-left" -> <<margin_px, margin_px>>
    [] position = "top-right" -> <<bw - ww - margin_px, margin_px>>
    [] position = "bottom-left" -> <<margin_px, bh - wh - margin_px>>
    [] position = "bottom-right" -> <<bw - ww - margin_px, bh - wh - margin_px>>
    [] position = "center" -> <<(bw - ww) \div 2, (bh - wh) \div 2>>
    [] OTHER -> <<bw - ww - margin_px, bh - wh - margin_px>>

\* app.py:87-90: the watermark (m.ref) scaled to scale_pct of the base's width
apply_watermark_scale(m, base, scale_pct) ==
  LET target_w == Max(1, (m.heap[base].w * scale_pct) \div 100)
  IN Image_resize(m, m.ref, target_w,
                  Max(1, (m.heap[m.ref].h * target_w) \div m.heap[m.ref].w))

\* app.py:93-96: alpha times opacity_pct/100, written into wm
apply_watermark_opacity(m, wm, opacity_pct) ==
  IF 0 <= opacity_pct /\ opacity_pct < 100
  THEN Image_putalpha(m, wm, (m.heap[wm].alpha * opacity_pct) \div 100)
  ELSE m

\* app.py:98-110: wm composited onto a copy (m.ref) of base, flattened to RGB
apply_watermark_composite(m, wm, position, margin_px) ==
  Image_convert(
    Image_alpha_composite(m, m.ref, wm,
                          WatermarkXY(position, m.heap[m.ref].w, m.heap[m.ref].h,
                                      m.heap[wm].w, m.heap[wm].h, margin_px)),
    m.ref, "RGB")

\* app.py:75-110, watermark not None (process_one tests it, app.py:161)
apply_watermark_inplace(m, base_in, watermark, position, scale_pct, opacity_pct, margin_px) ==
  Only({
  Only({
  Only({ apply_watermark_composite(m5, m3.ref, position, margin_px)
         : m5 \in {Image_copy(m3, m1.ref)} })
  : m3 \in {apply_watermark_scale(
              [apply_watermark_opacity(m1, watermark, opacity_pct) EXCEPT !.ref = watermark],
              m1.ref, scale_pct)} })
  : m1 \in {Image_convert(m, base_in, "RGBA")} })

apply_watermark(m, base_in, watermark, position, scale_pct, opacity_pct, margin_px) ==
  Only({
  Only({
  Only({
  Only({
  Only({ apply_watermark_composite(m5, m3.ref, position, margin_px)
         : m5 \in {Image_copy(m4, m1.ref)} })
  : m4 \in {apply_watermark_opacity(m3, m3.ref, opacity_pct)} })
  : m3 \in {apply_watermark_scale(m2, m1.ref, scale_pct)} })
  : m2 \in {Image_convert(m1, watermark, "RGBA")} })
  : m1 \in {Image_convert(m, base_in, "RGBA")} })

\* app.py:146-164; wm is 0 for None
process_one(m, image, p, wm) ==
  Only({
  Only({ IF m2.exc # "none" \/ wm = 0 THEN m2
         ELSE apply_watermark(m2, m2.ref, wm, p.wm_position, p.wm_scale_pct,
                              p.wm_opacity_pct, p.wm_margin_px)
         : m2 \in {IF m1.exc # "none" THEN m1
                   ELSE resize_to_long_edge(m1, m1.ref, p.target_long)} })
  : m1 \in {ensure_rgb_and_srgb(m, image, p.convert_to_srgb)} })

\* ------------------------------------------------------------------ encoder
JPEG == <<"J", "P", "E", "G">>
WEBP == <<"W", "E", "B", "P">>
PNG == <<"P", "N", "G">>

\* The encoded file: what a decoder would read back from the bytes
Encoded(img, format, exif) ==
  [format |-> format, pix |-> img.pix, mode |-> img.mode, w |-> img.w, h |-> img.h,
   exif |-> exif, mark |-> img.mark]

\* Image.save(buf, format=..., exif=exif_bytes): the exception the codec raises,
\* "none" when it writes.  JPEG holds EXIF in one marker segment and raises
\* ValueError for a longer payload; the WebP encoder of the build either takes
\* the payload ("ok"), rejects the exif argument (TypeError), or fails to mux a
\* non-empty payload (OSError).
Image_save_exc(format, exif_bytes, codec) ==
  IF format = JPEG
  THEN IF exif_bytes = "toolong" THEN "ValueError" ELSE "none"
  ELSE IF format = WEBP
  THEN IF codec = "TypeError" THEN "TypeError"
       ELSE IF codec = "OSError" /\ exif_bytes # "none" THEN "OSError"
       ELSE "none"
  ELSE "none"

\* what save_image_bytes leaves: the machine, with the bytes returned in data
Saved(m, e, d) == [heap |-> m.heap, ref |-> m.ref, exc |-> e, data |-> d]

\* app.py:125-134, on the copy work = m.ref
save_jpeg(m, exif_bytes, codec) ==
  Only({ IF Image_save_exc(JPEG, exif_bytes, codec) # "none"
         THEN Saved(m2, Image_save_exc(JPEG, exif_bytes, codec), <<>>)
         ELSE Saved(m2, "none", Encoded(m2.heap[m2.ref], JPEG, exif_bytes))
         : m2 \in {Image_convert(m, m.ref, "RGB")} })

\* app.py:135-139, on the copy work = m.ref
save_webp(m, exif_bytes, codec) ==
  IF Image_save_exc(WEBP, exif_bytes, codec) = "TypeError"
  THEN Saved(m, "none", Encoded(m.heap[m.ref], WEBP, "none"))
  ELSE IF Image_save_exc(WEBP, exif_bytes, codec) # "none"
  THEN Saved(m, Image_save_exc(WEBP, exif_bytes, codec), <<>>)
  ELSE Saved(m, "none", Encoded(m.heap[m.ref], WEBP, exif_bytes))

\* app.py:113-142
save_image_bytes(m, img, fmt, keep_metadata, codec) ==
  Only({ IF Upper(fmt) = JPEG
         THEN save_jpeg(m1, IF keep_metadata THEN m.heap[img].exif ELSE "none", codec)
         ELSE IF Upper(fmt) = WEBP
         THEN save_webp(m1, IF keep_metadata THEN m.heap[img].exif ELSE "none", codec)
         ELSE Saved(m1, "none", Encoded(m1.heap[m1.ref], PNG, "none"))
         : m1 \in {Image_copy(m, img)} })

\* --------------------------------------------------------- function harness
\* Each function is called once on inputs drawn from bounded sets; heap holds
\* the caller's images, ret what the call returned.
NoRet == [exc |-> "pending"]
NoParams == [none |-> TRUE]
NoDelivery == [kind |-> "none"]

ScriptIdle ==
  /\ images = <<>>
  /\ wm_img = 0
  /\ params = NoParams
  /\ idx = 0
  /\ results = <<>>
  /\ delivery = NoDelivery
  /\ preview = NoDelivery

ScriptUnchanged == UNCHANGED <<images, wm_img, params, idx, results, delivery, preview>>

\* what the caller sees of a finished call: the exception, the image returned,
\* and whether it is the very object passed in
Returned(m, arg) ==
  [exc |-> m.exc,
   img |-> IF m.exc = "none" THEN m.heap[m.ref] ELSE <<>>,
   same |-> m.exc = "none" /\ m.ref = arg]

\* resize_to_long_edge(img, target_long)
InitResize ==
  /\ pc = "call"
  /\ \E w \in 1..MaxDim, h \in 1..MaxDim :
       heap = <<Img("in", "RGB", w, h, "none", "none", 255)>>
  /\ \E t \in (-1)..MaxTarget : call = [fn |-> "resize_to_long_edge", target_long |-> t]
  /\ ret = NoRet
  /\ ScriptIdle

CallResize ==
  /\ pc = "call"
  /\ call.fn = "resize_to_long_edge"
  /\ \E m \in {resize_to_long_edge(Mach(heap, 1), 1, call.target_long)} :
        /\ ret' = Returned(m, 1)
        /\ heap' = SubSeq(m.heap, 1, Len(heap))
  /\ pc' = "returned"
  /\ UNCHANGED call
  /\ ScriptUnchanged

SpecResize == InitResize /\ [][CallResize]_vars

\* ensure_rgb_and_srgb(img, convert_to_srgb)
InitColor ==
  /\ pc = "call"
  /\ \E mode \in Modes, icc \in {"none", "ok", "bad"}, exif \in {"none", "small"},
        w \in 1..MaxDim :
       heap = <<Img("in", mode, w, 1, icc, exif, IF mode \in AlphaModes THEN 128 ELSE 255)>>
  /\ \E c \in BOOLEAN : call = [fn |-> "ensure_rgb_and_srgb", convert_to_srgb |-> c]
  /\ ret = NoRet
  /\ ScriptIdle

CallColor ==
  /\ pc = "call"
  /\ call.fn = "ensure_rgb_and_srgb"
  /\ \E m \in {ensure_rgb_and_srgb(Mach(heap, 1), 1, call.convert_to_srgb)} :
        /\ ret' = Returned(m, 1)
        /\ heap' = SubSeq(m.heap, 1, Len(heap))
  /\ pc' = "returned"
  /\ UNCHANGED call
  /\ ScriptUnchanged

SpecColor == InitColor /\ [][CallColor]_vars

C5_DownscaledSidesAtLeastOne ==
  (/\ pc = "returned"
   /\ call.fn = "resize_to_long_edge"
   /\ call.target_long > 0
   /\ Max(heap[1].w, heap[1].h) > call.target_long) =>
    LET w == heap[1].w
        h == heap[1].h
        t == call.target_long
        long_side == Max(w, h)
        Nearest(n, x) == 2 * n * long_side - long_side <= 2 * x * t
                         /\ 2 * x * t <= 2 * n * long_side + long_side
    IN /\ ret.exc = "none"
       /\ Nearest(ret.img.w, w)
       /\ Nearest(ret.img.h, h)
       /\ ret.img.w >= 1
       /\ ret.img.h >= 1

BaseSizes == {<<1000, 800>>, <<8, 6>>, <<3, 5>>}
WatermarkSizes == {<<200, 160>>, <<4, 2>>}
Positions == {"top-left", "top-right", "bottom-left", "bottom-right", "center"}

InitWatermark ==
  /\ pc = "call"
  /\ \E b \in BaseSizes, k \in WatermarkSizes :
       heap = <<Img("in", "RGB", b[1], b[2], "none", "none", 255),
                Img("wm", "RGBA", k[1], k[2], "none", "none", 200)>>
  /\ \E pos \in Positions \cup {"middle"}, sc \in {10, 25}, op \in {0, 70, 100},
        mg \in {0, 24} :
       call = [fn |-> "apply_watermark", position |-> pos, scale_pct |-> sc,
               opacity_pct |-> op, margin_px |-> mg]
  /\ ret = NoRet
  /\ ScriptIdle

CallWatermark ==
  /\ pc = "call"
  /\ call.fn = "apply_watermark"
  /\ \E m \in {apply_watermark(Mach(heap, 1), 1, 2, call.position, call.scale_pct,
                                  call.opacity_pct, call.margin_px)} :
        /\ ret' = Returned(m, 1)
        /\ heap' = SubSeq(m.heap, 1, Len(heap))
  /\ pc' = "returned"
  /\ UNCHANGED call
  /\ ScriptUnchanged

SpecWatermark == InitWatermark /\ [][CallWatermark]_vars

\* C7: the scaled watermark's top-left corner is placed by position and
\* margin as the table says (center ignores the margin and halves rounding
\* down; an unrecognized position is bottom-right), with no clamping; base
\* 1000x800, watermark 100x80, margin 24, bottom-right gives (876, 696).
C7_WatermarkPlacement ==
  (pc = "returned" /\ call.fn = "apply_watermark") =>
    /\ ret.exc = "none"
    /\ Len(ret.img.mark) = 6
    /\ LET x == ret.img.mark[1]
           y == ret.img.mark[2]
           wmW == ret.img.mark[3]
           wmH == ret.img.mark[4]
           baseW == heap[1].w
           baseH == heap[1].h
           mg == call.margin_px
           pos == call.position
       IN /\ pos = "top-left" => (x = mg /\ y = mg)
          /\ pos = "top-right" => (x = baseW - wmW - mg /\ y = mg)
          /\ pos = "bottom-left" => (x = mg /\ y = baseH - wmH - mg)
          /\ pos \notin {"top-left", "top-right", "bottom-left", "center"} =>
               (x = baseW - wmW - mg /\ y = baseH - wmH - mg)
          /\ pos = "center" =>
               /\ 2 * x <= baseW - wmW /\ baseW - wmW <= 2 * x + 1
               /\ 2 * y <= baseH - wmH /\ baseH - wmH <= 2 * y + 1
          /\ (baseW = 1000 /\ baseH = 800 /\ wmW = 100 /\ wmH = 80 /\ mg = 24
              /\ pos = "bottom-right") => (x = 876 /\ y = 696)

C7_Witness ==
  /\ pc = "returned"
  /\ call.fn = "apply_watermark"
  /\ call.position = "bottom-right"
  /\ call.margin_px = 24
  /\ heap[1].w = 1000 /\ heap[1].h = 800
  /\ ret.exc = "none"
  /\ ret.img.mark[3] = 100 /\ ret.img.mark[4] = 80
  /\ ret.img.mark[1] = 876 /\ ret.img.mark[2] = 696

\* save_image_bytes(img, fmt, quality, progressive, optimize, keep_metadata)
InitSave ==
  /\ pc = "call"
  /\ \E mode \in {"RGB", "RGBA"}, exif \in {"none", "small", "toolong"} :
       heap = <<Img("in", mode, 2, 1, "none", exif, IF mode = "RGBA" THEN 128 ELSE 255)>>
  /\ \E f \in {JPEG, <<"j", "p", "e", "g">>, WEBP, <<"w", "e", "b", "p">>, PNG},
        k \in BOOLEAN, c \in {"ok", "TypeError", "OSError"} :
       call = [fn |-> "save_image_bytes", fmt |-> f, keep_metadata |-> k, codec |-> c]
  /\ ret = NoRet
  /\ ScriptIdle

CallSave ==
  /\ pc = "call"
  /\ call.fn = "save_image_bytes"
  /\ \E m \in {save_image_bytes(Mach(heap, 1), 1, call.fmt, call.keep_metadata,
                                   call.codec)} :
        /\ ret' = [exc |-> m.exc, data |-> m.data]
        /\ heap' = SubSeq(m.heap, 1, Len(heap))
  /\ pc' = "returned"
  /\ UNCHANGED call
  /\ ScriptUnchanged

SpecSave == InitSave /\ [][CallSave]_vars

\* C8: whenever writing the output with the EXIF payload fails, whatever the
\* failure kind and the format, save_image_bytes retries without metadata and
\* returns bytes: no such failure reaches the caller.
C8_MetadataFailureRecovered ==
  (/\ pc = "returned"
   /\ call.fn = "save_image_bytes"
   /\ Image_save_exc(Upper(call.fmt),
                     IF call.keep_metadata THEN heap[1].exif ELSE "none",
                     call.codec) # "none") =>
    /\ ret.exc = "none"
    /\ ret.data.exif = "none"

\* ------------------------------------------------------------ the script run
\* The uploads the run starts from, as read_uploaded_images returned them
\* (app.py:231): names with and without path prefixes and extensions, two of
\* them with the same stem; contents of several modes, profiles and sizes.
Pool ==
  {[name |-> <<"d", "/", "a", ".", "j">>, img |-> Img("p1", "RGB", 4, 3, "none", "small", 255)],
   [name |-> <<"a", ".", "p">>, img |-> Img("p2", "P", 2, 3, "bad", "none", 255)],
   [name |-> <<"c", "\\", "b", ".", "x", ".", "t">>,
    img |-> Img("p3", "RGBA", 4, 1, "ok", "none", 128)],
   [name |-> <<".", "h">>, img |-> Img("p4", "L", 3, 3, "none", "toolong", 255)],
   [name |-> <<"d", ".", "v", "/", "e">>, img |-> Img("p5", "RGB", 2, 2, "none", "none", 255)]}

Batches == UNION {[1..n -> Pool] : n \in 0..MaxImages}

\* the PNG watermark, opened at app.py:236
WatermarkFile == Img("wm", "RGBA", 4, 2, "none", "none", 200)

WatermarkChoices ==
  {[on |-> FALSE, position |-> "bottom-right", opacity |-> 70],
   [on |-> TRUE, position |-> "bottom-right", opacity |-> 70],
   [on |-> TRUE, position |-> "center", opacity |-> 100]}

Init ==
  /\ pc = "loaded"
  /\ \E b \in Batches, wc \in WatermarkChoices :
       /\ images = [k \in 1..Len(b) |-> [name |-> b[k].name, ref |-> k]]
       /\ heap = [k \in 1..Len(b) |-> b[k].img]
                 \o (IF wc.on THEN <<WatermarkFile>> ELSE <<>>)
       /\ wm_img = IF wc.on THEN Len(b) + 1 ELSE 0
       /\ \E t \in {2, 8}, f \in {JPEG, WEBP}, c \in {"ok", "TypeError", "OSError"},
             sr \in BOOLEAN, km \in BOOLEAN, sf \in {<<"_", "w">>, <<>>} :
            /\ f = JPEG => c = "ok"
            /\ params = [target_long |-> t, out_fmt |-> f, codec |-> c,
                         convert_to_srgb |-> sr, keep_metadata |-> km,
                         wm_position |-> wc.position, wm_scale_pct |-> 25,
                         wm_opacity_pct |-> wc.opacity, wm_margin_px |-> 1,
                         suffix |-> sf]
  /\ idx = 0
  /\ results = <<>>
  /\ delivery = NoDelivery
  /\ preview = NoDelivery
  /\ call = NoParams
  /\ ret = NoRet

\* app.py:274, 300
MimeOf(out_fmt) == IF Upper(out_fmt) = JPEG THEN "image/jpeg" ELSE "image/webp"

\* app.py:246-258 and 287-291: process_one, save_image_bytes and
\* filename_with_suffix on one (name, img); the machine after them, with the
\* output's name
Produce(h, entry, p, wm) ==
  Only({
  Only({ [heap |-> m2.heap, exc |-> m2.exc, data |-> m2.data,
          name |-> filename_with_suffix(entry.name, p.suffix, Lower(p.out_fmt))]
         : m2 \in {IF m1.exc # "none" THEN Saved(m1, m1.exc, <<>>)
                   ELSE save_image_bytes(m1, m1.ref, p.out_fmt, p.keep_metadata, p.codec)} })
  : m1 \in {process_one(Mach(h, entry.ref), entry.ref, p, wm)} })

\* app.py:242-275; the re-encoding of the sample for its size (app.py:251-256)
\* is guarded by its own try and writes to a buffer of its own
Preview ==
  /\ pc = "loaded"
  /\ IF images = <<>>
     THEN /\ preview' = [kind |-> "info"]
          /\ pc' = "button"
          /\ UNCHANGED heap
     ELSE \E o \in {Produce(heap, images[1], params, wm_img)} :
             /\ heap' = SubSeq(o.heap, 1, Len(heap))
             /\ IF o.exc # "none"
                THEN /\ pc' = "crashed"
                     /\ UNCHANGED preview
                ELSE /\ pc' = "button"
                     /\ preview' = [kind |-> "file", name |-> o.name, data |-> o.data,
                                    mime |-> MimeOf(params.out_fmt)]
  /\ UNCHANGED <<images, wm_img, params, idx, results, delivery, call, ret>>

\* app.py:281: the button was not clicked, the run ends
NotClicked ==
  /\ pc = "button"
  /\ pc' = "idle"
  /\ UNCHANGED <<heap, images, wm_img, params, idx, results, delivery, preview, call, ret>>

\* app.py:281-285: the button was clicked
Clicked ==
  /\ pc = "button"
  /\ IF images = <<>>
     THEN /\ delivery' = [kind |-> "warning"]
          /\ pc' = "done"
          /\ UNCHANGED <<idx, results>>
     ELSE /\ results' = <<>>
          /\ idx' = 1
          /\ pc' = "loop"
          /\ UNCHANGED delivery
  /\ UNCHANGED <<heap, images, wm_img, params, preview, call, ret>>

\* app.py:286-292: one iteration; an exception leaves the loop and the run
BatchStep ==
  /\ pc = "loop"
  /\ idx <= Len(images)
  /\ \E o \in {Produce(heap, images[idx], params, wm_img)} :
        /\ heap' = SubSeq(o.heap, 1, Len(heap))
        /\ IF o.exc # "none"
           THEN /\ pc' = "aborted"
                /\ UNCHANGED <<idx, results>>
           ELSE /\ results' = Append(results, [name |-> o.name, data |-> o.data])
                /\ idx' = idx + 1
                /\ pc' = "loop"
  /\ UNCHANGED <<images, wm_img, params, delivery, preview, call, ret>>

\* ZipFile.writestr(fname, data): a new member each time, also for a name the
\* archive already holds (zipfile warns and writes it)
ZipFile_writestr(zf, fname, data) ==
  Append(zf, [name |-> fname, data |-> data, compression |-> "deflated"])

\* app.py:306-307
RECURSIVE WriteAll(_, _)
WriteAll(zf, res) ==
  IF res = <<>> THEN zf
  ELSE WriteAll(ZipFile_writestr(zf, Head(res).name, Head(res).data), Tail(res))

\* app.py:294-316
Export_always_zip(res, out_fmt) ==
  [kind |-> "zip", name |-> "exports_ts.zip", mime |-> "application/zip",
   entries |-> WriteAll(<<>>, res)]

Export(res, out_fmt) ==
  IF Len(res) = 1
  THEN [kind |-> "file", name |-> res[1].name, data |-> res[1].data,
        mime |-> MimeOf(out_fmt)]
  ELSE [kind |-> "zip", name |-> "exports_ts.zip", mime |-> "application/zip",
        entries |-> WriteAll(<<>>, res)]

\* app.py:294-316: the loop is over
Deliver ==
  /\ pc = "loop"
  /\ idx > Len(images)
  /\ delivery' = Export(results, params.out_fmt)
  /\ pc' = "done"
  /\ UNCHANGED <<heap, images, wm_img, params, idx, results, preview, call, ret>>

Next == Preview \/ NotClicked \/ Clicked \/ BatchStep \/ Deliver

Spec == Init /\ [][Next]_vars

\* whether process_one or save_image_bytes raises for images[k]
Fails(k) == Produce(heap, images[k], params, wm_img).exc # "none"

\* C1: the batch never aborts on a per-image failure: when the batch is over,
\* the loop has gone through every image, the results hold the output of
\* every image that did not fail, and they are delivered.
C1_BatchNeverAborts ==
  (pc \in {"done", "aborted"} /\ images # <<>>) =>
    /\ idx = Len(images) + 1
    /\ Len(results) = Cardinality({k \in DOMAIN images : ~Fails(k)})
    /\ delivery.kind \in {"file", "zip"}

\* base is name without its path prefix (up to the last "/" or "\") and
\* without its last ".extension"
StemOf(name, base) ==
  \E i \in 0..Len(name) :
    /\ i = 0 \/ name[i] \in {"/", "\\"}
    /\ \A j \in (i + 1)..Len(name) : name[j] \notin {"/", "\\"}
    /\ \/ /\ \A j \in (i + 1)..Len(name) : name[j] # "."
          /\ base = SubSeq(name, i + 1, Len(name))
       \/ \E d \in (i + 1)..Len(name) :
            /\ name[d] = "."
            /\ \A j \in (d + 1)..Len(name) : name[j] # "."
            /\ base = SubSeq(name, i + 1, d - 1)

\* C2: when every image processes, the batch result has one entry per input
\* image in input order, entry k made from input k and named stem(name_k),
\* then the suffix, a dot and the lowercase format extension.
C2_OneEntryPerImageInOrder ==
  /\ \A k \in DOMAIN results :
       /\ k <= Len(images)
       /\ results[k].data.pix = heap[images[k].ref].pix
       /\ \E base \in {SubSeq(images[k].name, a, b) :
                         a \in 1..(Len(images[k].name) + 1), b \in 0..Len(images[k].name)} :
            /\ StemOf(images[k].name, base)
            /\ results[k].name =
                 base \o params.suffix \o <<".">>
                 \o (IF params.out_fmt = JPEG THEN <<"j", "p", "e", "g">>
                     ELSE <<"w", "e", "b", "p">>)
  /\ (pc = "done" /\ images # <<>>) => Len(results) = Len(images)

C2_Witness ==
  /\ pc = "done"
  /\ Len(results) = 2
  /\ images[1].name = <<"d", "/", "a", ".", "j">>
  /\ images[2].name = <<"c", "\\", "b", ".", "x", ".", "t">>
  /\ results[1].name = <<"a", "_", "w", ".", "j", "p", "e", "g">>
  /\ results[2].name = <<"b", ".", "x", "_", "w", ".", "j", "p", "e", "g">>
  /\ results[2].data.pix = "p3"

\* C3: the delivery is decided by the number of results: no images, a
\* warning and nothing else; one result, that file itself with the MIME type
\* of the output format; n > 1 results, a deflated ZIP (application/zip) of
\* exactly n members, one per result in result order, equal names included.
C3_DeliveryByCount ==
  /\ pc # "done" => delivery.kind = "none"
  /\ pc = "done" =>
       /\ images = <<>> => (delivery = [kind |-> "warning"] /\ results = <<>>)
       /\ Len(results) = 1 =>
            /\ delivery.kind = "file"
            /\ delivery.name = results[1].name
            /\ delivery.data = results[1].data
            /\ delivery.data.format = params.out_fmt
            /\ delivery.mime = (IF params.out_fmt = JPEG THEN "image/jpeg" ELSE "image/webp")
       /\ Len(results) > 1 =>
            /\ delivery.kind = "zip"
            /\ delivery.mime = "application/zip"
            /\ Len(delivery.entries) = Len(results)
            /\ \A k \in DOMAIN results :
                 /\ delivery.entries[k].name = results[k].name
                 /\ delivery.entries[k].data = results[k].data
                 /\ delivery.entries[k].compression = "deflated"

C3_Witness ==
  /\ pc = "done"
  /\ delivery.kind = "zip"
  /\ Len(delivery.entries) = 2
  /\ delivery.entries[1].name = delivery.entries[2].name
  /\ delivery.entries[1].data # delivery.entries[2].data

\* C10: no step mutates a caller-visible image: the input images and the
\* shared watermark stay as they were through the preview and the batch, and
\* every output equals what the image gives on its own, whatever was
\* processed before it (the watermark's opacity is not compounded).
C10_NoImageMutated ==
  /\ [][heap' = heap]_vars
  /\ [](\A k \in DOMAIN results :
          results[k].data = Produce(heap, images[k], params, wm_img).data)
  /\ []((pc = "button" /\ images # <<>>) =>
          preview.data = Produce(heap, images[1], params, wm_img).data)

C10_Witness ==
  /\ pc = "done"
  /\ Len(results) = 2
  /\ wm_img # 0
  /\ params.wm_opacity_pct = 70
  /\ heap[wm_img].alpha = 200
  /\ results[1].data.mark[5] = 140
  /\ results[2].data.mark[5] = 140

\* ------------------------------------------------------ read_uploaded_images
\* An upload is a file with a name; "image" uploads decode or not, "zip"
\* uploads are archives (or not: corrupt) whose members are directories or
\* files, each readable from the archive or not (an encrypted member, a
\* compression method the build lacks), and decodable as an image or not.
ImageSuffixes ==
  {<<".", "j", "p", "g">>, <<".", "j", "p", "e", "g">>, <<".", "p", "n", "g">>,
   <<".", "w", "e", "b", "p">>, <<".", "t", "i", "f">>, <<".", "t", "i", "f", "f">>}

\* app.py:27
IsImageName(fname) == \E suf \in ImageSuffixes : EndsWith(Lower(fname), suf)

\* app.py:20
IsZipName(name) == EndsWith(Lower(name), <<".", "z", "i", "p">>)

EntryPool ==
  {[filename |-> <<"a", ".", "j", "p", "g">>, is_dir |-> FALSE, status |-> "ok", pix |-> "e1"],
   [filename |-> <<"n", ".", "t", "x", "t">>, is_dir |-> FALSE, status |-> "ok", pix |-> "e2"],
   [filename |-> <<"b", "/">>, is_dir |-> TRUE, status |-> "ok", pix |-> "e3"],
   [filename |-> <<"c", ".", "P", "N", "G">>, is_dir |-> FALSE, status |-> "undecodable",
    pix |-> "e4"],
   [filename |-> <<"d", ".", "t", "i", "f">>, is_dir |-> FALSE, status |-> "unreadable",
    pix |-> "e5"]}

Archives == UNION {[1..n -> EntryPool] : n \in 0..MaxEntries}

UploadPool ==
  {[name |-> <<"x", ".", "j", "p", "e", "g">>, status |-> "ok", pix |-> "u1", entries |-> <<>>],
   [name |-> <<"y", ".", "w", "e", "b", "p">>, status |-> "undecodable", pix |-> "u2",
    entries |-> <<>>],
   [name |-> <<"q", ".", "Z", "I", "P">>, status |-> "corrupt", pix |-> "u3", entries |-> <<>>]}
  \cup {[name |-> <<"z", ".", "z", "i", "p">>, status |-> "ok", pix |-> "u4", entries |-> a] :
          a \in Archives}

\* app.py:23-35: the members of one archive, onto acc = [exc, images]
RECURSIVE ReadEntries(_, _)
ReadEntries(infos, acc) ==
  IF infos = <<>> \/ acc.exc # "none" THEN acc
  ELSE Only({ ReadEntries(Tail(infos), next)
              : next \in {LET info == Head(infos)
                          IN IF info.is_dir THEN acc
                             ELSE IF ~IsImageName(info.filename) THEN acc
                             ELSE IF info.status = "unreadable"
                             THEN [acc EXCEPT !.exc = "RuntimeError"]
                             ELSE IF info.status = "undecodable" THEN acc
                             ELSE [acc EXCEPT !.images =
                                     Append(@, <<info.filename, info.pix>>)]} })

\* app.py:18-42: the uploads, onto acc
RECURSIVE ReadUploads(_, _)
ReadUploads(ufs, acc) ==
  IF ufs = <<>> \/ acc.exc # "none" THEN acc
  ELSE Only({ ReadUploads(Tail(ufs), next)
              : next \in {LET uf == Head(ufs)
                          IN IF IsZipName(uf.name)
                             THEN IF uf.status = "corrupt"
                                  THEN [acc EXCEPT !.exc = "BadZipFile"]
                                  ELSE ReadEntries(uf.entries, acc)
                             ELSE IF uf.status = "ok"
                             THEN [acc EXCEPT !.images = Append(@, <<uf.name, uf.pix>>)]
                             ELSE acc} })

\* app.py:13-43
read_uploaded_images(uploaded_files) ==
  ReadUploads(uploaded_files, [exc |-> "none", images |-> <<>>])

InitRead ==
  /\ pc = "call"
  /\ \E n \in 0..MaxUploads : \E ufs \in [1..n -> UploadPool] :
       call = [fn |-> "read_uploaded_images", uploaded_files |-> ufs]
  /\ heap = <<>>
  /\ ret = NoRet
  /\ ScriptIdle

CallRead ==
  /\ pc = "call"
  /\ call.fn = "read_uploaded_images"
  /\ ret' = read_uploaded_images(call.uploaded_files)
  /\ pc' = "returned"
  /\ UNCHANGED <<heap, call>>
  /\ ScriptUnchanged

SpecRead == InitRead /\ [][CallRead]_vars

\* the recognized members of an archive that decode, in member order
RECURSIVE DecodableEntries(_)
DecodableEntries(infos) ==
  IF infos = <<>> THEN <<>>
  ELSE (IF /\ ~Head(infos).is_dir
           /\ \E suf \in ImageSuffixes : EndsWith(Lower(Head(infos).filename), suf)
           /\ Head(infos).status = "ok"
        THEN <<(<<Head(infos).filename, Head(infos).pix>>)>> ELSE <<>>)
       \o DecodableEntries(Tail(infos))

\* the images that decode, in upload and member order
RECURSIVE DecodableImages(_)
DecodableImages(ufs) ==
  IF ufs = <<>> THEN <<>>
  ELSE (IF Head(ufs).entries # <<>> THEN DecodableEntries(Head(ufs).entries)
        ELSE IF Head(ufs).status = "ok" /\ ~IsZipName(Head(ufs).name)
        THEN <<(<<Head(ufs).name, Head(ufs).pix>>)>> ELSE <<>>)
       \o DecodableImages(Tail(ufs))

\* C6: read_uploaded_images returns exactly the recognized images that
\* decode, in upload and member order; a member or file that fails to decode
\* is skipped alone and no such failure makes the whole read fail.
C6_ReadSkipsFailuresOnly ==
  (pc = "returned" /\ call.fn = "read_uploaded_images") =>
    /\ ret.exc = "none"
    /\ ret.images = DecodableImages(call.uploaded_files)

====
